---- MODULE Spec2Model ----
(***************************************************************************)
(* Model of master_runner_short.py: the retrying command runner            *)
(* (run_command_with_logging) and the daily orchestrator (main).           *)
(*                                                                         *)
(* External processes, the email collaborator and the file system are the  *)
(* environment: every invocation draws its outcome from a small set.       *)
(***************************************************************************)
EXTENDS Integers, Sequences, FiniteSets, TLC

\* ------------------------------------------------------------------ bounds
\* Largest max_retries tried when run_command_with_logging is called directly.
MaxRetriesBound == 3
\* Largest non-zero exit status an external command produces (1..MaxExitCode).
MaxExitCode == 2
\* Largest number of data rows in the summary CSV.
MaxRows == 2
\* time.time() at the moment cleanup_old_logs runs, in seconds.
Now == 2600000
\* Largest number of *.log files in a logs directory cleanup_old_logs is
\* called on directly.
MaxLogFiles == 3
\* Largest number of files whose stat() or unlink() raises during the
\* Cleanup step of one run of main.
MaxMainFaults == 1
\* Largest number of successive calls of copy_to_docs.
MaxCopyCalls == 2
\* Largest number of file operations that raise in one call of copy_to_docs.
MaxCopyFaults == 1

\* ------------------------------------------------------- program constants
\* time.sleep(5) between attempts
RetryDelay == 5
\* default max_retries of run_command_with_logging
DefaultMaxRetries == 3
\* max_retries passed for git add and git commit
GitMaxRetries == 2
\* max_retries passed for git push
PushMaxRetries == 1
\* Retention window of cleanup_old_logs in seconds: 30 * 24 * 60 * 60
RetentionSeconds == 2592000

\* ------------------------------------------------------------ environment
\* What one invocation of subprocess.run can do: the child exits with a
\* status, or starting/waiting for it raises an exception that is not
\* CalledProcessError (e.g. the executable is missing).
ExitOutcomes == {[kind |-> "exit", code |-> c, exc |-> "none"] : c \in 0..MaxExitCode}

RaiseOutcomes == {[kind |-> "raise", code |-> 0, exc |-> e] :
                    e \in {"FileNotFoundError", "PermissionError"}}

Outcomes == ExitOutcomes \cup RaiseOutcomes

\* Exception classes as the handlers see them: everything raised here is a
\* subclass of Exception; only CalledProcessError matches the specific clauses.
IsCalledProcessError(exc) == exc = "CalledProcessError"

IsException(exc) == exc \in {"CalledProcessError", "FileNotFoundError", "PermissionError"}

LogRec(level, msg, n) == [level |-> level, msg |-> msg, n |-> n]

RunEvent(attempt, o) == [ev |-> "run", attempt |-> attempt, kind |-> o.kind, code |-> o.code]

SleepEvent(attempt, secs) == [ev |-> "sleep", attempt |-> attempt, kind |-> "sleep", code |-> secs]

\* ------------------------------------------------- run_command_with_logging
\* subprocess.run(command, check=True, ...): returns normally on exit status
\* zero, raises CalledProcessError on any other status, or lets the
\* exception of a failed start propagate.
subprocess_run(o) ==
    IF o.kind = "raise" THEN [kind |-> "raise", exc |-> o.exc, code |-> 0]
    ELSE IF o.code # 0 THEN [kind |-> "raise", exc |-> "CalledProcessError", code |-> o.code]
    ELSE [kind |-> "ok", exc |-> "none", code |-> 0]

\* The inner try statement: the call, `return True` after it, and the inner
\* `except subprocess.CalledProcessError` clause, which logs and returns False.
\* Result: a return, or an exception that leaves the statement.
inner_try_no_return(o) ==
    LET r == subprocess_run(o) IN
    IF r.kind = "ok"
    THEN [kind |-> "normal", value |-> FALSE, exc |-> "none", log |-> << >>]
    ELSE IF IsCalledProcessError(r.exc)
    THEN [kind |-> "return", value |-> FALSE, exc |-> "none",
          log |-> << LogRec("ERROR", "Command failed with exit code", r.code) >>]
    ELSE [kind |-> "raise", value |-> FALSE, exc |-> r.exc, log |-> << >>]

inner_try(o) ==
    LET r == subprocess_run(o) IN
    IF r.kind = "ok"
    THEN [kind |-> "return", value |-> TRUE, exc |-> "none", log |-> << >>]
    ELSE IF IsCalledProcessError(r.exc)
    THEN [kind |-> "return", value |-> FALSE, exc |-> "none",
          log |-> << LogRec("ERROR", "Command failed with exit code", r.code) >>]
    ELSE [kind |-> "raise", value |-> FALSE, exc |-> r.exc, log |-> << >>]

\* The except clauses of the outer try statement, for an exception that left
\* the inner try: CalledProcessError is retried after a sleep unless this was
\* the last attempt; any other Exception returns False.
outer_except_retry_all(exc, attempt, max_retries) ==
    IF IsException(exc)
    THEN IF attempt = max_retries
         THEN [kind |-> "return", value |-> FALSE, sleep |-> 0,
               log |-> << LogRec("ERROR", "Attempt failed", attempt),
                          LogRec("ERROR", "All attempts failed", max_retries) >>]
         ELSE [kind |-> "normal", value |-> FALSE, sleep |-> RetryDelay,
               log |-> << LogRec("ERROR", "Attempt failed", attempt),
                          LogRec("INFO", "Retrying in 5 seconds", RetryDelay) >>]
    ELSE [kind |-> "raise", value |-> FALSE, sleep |-> 0, log |-> << >>]

outer_except(exc, attempt, max_retries) ==
    IF IsCalledProcessError(exc)
    THEN IF attempt = max_retries
         THEN [kind |-> "return", value |-> FALSE, sleep |-> 0,
               log |-> << LogRec("ERROR", "Attempt failed", attempt),
                          LogRec("ERROR", "All attempts failed", max_retries) >>]
         ELSE [kind |-> "normal", value |-> FALSE, sleep |-> RetryDelay,
               log |-> << LogRec("ERROR", "Attempt failed", attempt),
                          LogRec("INFO", "Retrying in 5 seconds", RetryDelay) >>]
    ELSE IF IsException(exc)
    THEN [kind |-> "return", value |-> FALSE, sleep |-> 0,
          log |-> << LogRec("ERROR", "Unexpected error", attempt) >>]
    ELSE [kind |-> "raise", value |-> FALSE, sleep |-> 0, log |-> << >>]

\* The environment handed to the child: a copy of os.environ in which
\* PYTHONPATH is set to str(Path.cwd()). PYTHONPATH is the sequence of its
\* entries, empty when the variable is unset. environ is os.environ itself
\* after the two statements.
env_setup(environ, cwd) ==
    [environ |-> environ, env |-> [environ EXCEPT !.PYTHONPATH = << cwd >>]]

\* One iteration of `for attempt in range(1, max_retries + 1)`: the body's
\* effect on the trace and the log, and how the body ends (return, raise to
\* the caller, or normal completion, which starts the next iteration).
loop_body(o, attempt, max_retries) ==
    LET head  == << LogRec("INFO", "Attempt", attempt) >>
        inner == inner_try(o)
        ran   == << RunEvent(attempt, o) >>
    IN  IF inner.kind # "raise"
        THEN [kind |-> inner.kind, value |-> inner.value,
              trace |-> ran, log |-> head \o inner.log]
        ELSE LET h == outer_except(inner.exc, attempt, max_retries) IN
             [kind |-> h.kind, value |-> h.value,
              trace |-> IF h.sleep > 0 THEN ran \o << SleepEvent(attempt, h.sleep) >> ELSE ran,
              log |-> head \o inner.log \o h.log]

RECURSIVE attempt_loop(_, _, _, _, _)
attempt_loop(outcomes, attempt, max_retries, trace, log) ==
    IF attempt > max_retries
    THEN [ret |-> FALSE, raised |-> FALSE, trace |-> trace, log |-> log]
    ELSE LET b == loop_body(outcomes[attempt], attempt, max_retries) IN
         IF b.kind = "return"
         THEN [ret |-> b.value, raised |-> FALSE, trace |-> trace \o b.trace, log |-> log \o b.log]
         ELSE IF b.kind = "raise"
         THEN [ret |-> FALSE, raised |-> TRUE, trace |-> trace \o b.trace, log |-> log \o b.log]
         ELSE attempt_loop(outcomes, attempt + 1, max_retries, trace \o b.trace, log \o b.log)

\* run_command_with_logging(command, description, logger, max_retries), with
\* outcomes[i] the behaviour of the i-th invocation should it take place.
run_command_with_logging(outcomes, max_retries) ==
    attempt_loop(outcomes, 1, max_retries, << >>, << >>)

NoResult == [ret |-> FALSE, raised |-> FALSE, trace |-> << >>, log |-> << >>]

\* ------------------------------------------------------------ push_to_github
\* The command list of push_to_github, the timestamp of the commit message
\* left out.
PushCommands ==
    << << "git", "add", "results/*" >>,
       << "git", "add", "docs/*" >>,
       << "git", "commit", "-m", "Update sentiment analysis and dashboard" >>,
       << "git", "push" >> >>

PushOutcomes == [1..Len(PushCommands) -> Outcomes]

PushEvent(cmd, o) == [cmd |-> cmd, kind |-> o.kind, code |-> o.code]

\* subprocess.run(cmd) without check=True: a non-zero exit status returns
\* normally.
git_run_unchecked(o) ==
    IF o.kind = "raise" THEN [kind |-> "raise", exc |-> o.exc, code |-> 0]
    ELSE [kind |-> "ok", exc |-> "none", code |-> 0]

\* subprocess.run(cmd, check=True) in the loop of push_to_github.
git_run(o) == subprocess_run(o)

\* `except subprocess.CalledProcessError`: logs the error and returns False;
\* any other exception leaves push_to_github.
push_except(exc, trace, log) ==
    IF IsCalledProcessError(exc)
    THEN [ret |-> FALSE, raised |-> FALSE, trace |-> trace,
          log |-> Append(log, LogRec("ERROR", "Error pushing to GitHub", 0))]
    ELSE [ret |-> FALSE, raised |-> TRUE, trace |-> trace, log |-> log]

\* `for cmd in commands`, from the i-th command on, with outcomes[i] the
\* behaviour of the i-th command should it be run.
RECURSIVE push_loop(_, _, _, _)
push_loop(outcomes, i, trace, log) ==
    IF i > Len(PushCommands)
    THEN [ret |-> TRUE, raised |-> FALSE, trace |-> trace,
          log |-> Append(log, LogRec("INFO", "Successfully pushed changes to GitHub", 0))]
    ELSE LET r   == git_run(outcomes[i])
             tr  == Append(trace, PushEvent(PushCommands[i], outcomes[i]))
             lg  == Append(log, LogRec("INFO", "Running", i))
         IN  IF r.kind = "ok"
             THEN push_loop(outcomes, i + 1, tr, lg)
             ELSE push_except(r.exc, tr, lg)

push_to_github(outcomes) == push_loop(outcomes, 1, << >>, << >>)

\* ------------------------------------------------------------ file system
\* First line of the summary CSV and the tickers of its data rows.
CsvHeader == "ticker,company,average_sentiment"

Tickers == << "AAPL", "MSFT", "GOOG", "AMZN" >>

\* results/sentiment_summary_latest.csv: absent, empty, or a header line
\* followed by up to MaxRows data rows.
SummaryFiles ==
    {[exists |-> FALSE, lines |-> << >>], [exists |-> TRUE, lines |-> << >>]}
    \cup {[exists |-> TRUE, lines |-> << CsvHeader >> \o SubSeq(Tickers, 1, n)] : n \in 0..MaxRows}

\* The part of the project directory main looks at before it runs anything.
FileSystems ==
    [sentiment_script : BOOLEAN, dashboard_script : BOOLEAN,
     venv_python : BOOLEAN, summary : SummaryFiles]

\* pd.read_csv(path): an empty file raises EmptyDataError; otherwise the first
\* line is the header and every further line is one row of the dataframe.
read_csv_header_as_row(lines) ==
    IF Len(lines) = 0 THEN [kind |-> "raise", df |-> << >>]
    ELSE [kind |-> "ok", df |-> lines]

read_csv(lines) ==
    IF Len(lines) = 0 THEN [kind |-> "raise", df |-> << >>]
    ELSE [kind |-> "ok", df |-> Tail(lines)]

\* -------------------------------------------------------- cleanup_old_logs
\* A file of the logs directory: its name (stem and extension) and st_mtime.
LogFile(stem, ext, mtime) == [stem |-> stem, ext |-> ext, mtime |-> mtime]

\* The file that setup_logging's FileHandler appends to.
MasterLog(mtime) == LogFile("tigro_master_detailed", "log", mtime)

\* Other files a logs directory may hold: a log older than the window, a log
\* exactly at the boundary, a log newer than it, and an old file that is no log.
OtherLogFiles ==
    { LogFile("cron_old", "log", Now - RetentionSeconds - 1),
      LogFile("cron_edge", "log", Now - RetentionSeconds),
      LogFile("notes", "txt", Now - RetentionSeconds - 1) }

LogDirs ==
    {[exists |-> FALSE, files |-> {}]} \cup {[exists |-> TRUE, files |-> F] : F \in SUBSET OtherLogFiles}

\* logs_dir.glob('*.log')
glob_log(files) == {f \in files : f.ext = "log"}

\* The orders in which a directory listing can enumerate a set of files.
Orders(S) == {q \in [1..Cardinality(S) -> S] : \A i, j \in 1..Cardinality(S) : q[i] = q[j] => i = j}

\* `if log_file.stat().st_mtime < thirty_days_ago`
is_old_or_at_boundary(f, current_time) == f.mtime <= current_time - RetentionSeconds

is_old(f, current_time) == f.mtime < current_time - RetentionSeconds

\* The for loop over the listing: an old file is unlinked and the deletion
\* logged; a stat() or an unlink() that raises ends the loop, the exception
\* leaving it. unreadable: the files whose stat() raises; failing: the files
\* whose unlink() raises.
RECURSIVE cleanup_loop(_, _, _, _, _, _, _)
cleanup_loop(order, i, files, current_time, unreadable, failing, log) ==
    IF i > Len(order) THEN [files |-> files, raised |-> FALSE, log |-> log]
    ELSE LET f == order[i] IN
         IF f \in unreadable
         THEN [files |-> files, raised |-> TRUE, log |-> log]
         ELSE IF ~is_old(f, current_time)
         THEN cleanup_loop(order, i + 1, files, current_time, unreadable, failing, log)
         ELSE IF f \in failing
         THEN [files |-> files, raised |-> TRUE, log |-> log]
         ELSE cleanup_loop(order, i + 1, files \ {f}, current_time, unreadable, failing,
                           Append(log, LogRec("INFO", "Deleted old log", i)))

\* `except Exception as e: logger.warning(...)`: the exception is dropped.
cleanup_except_reraise(log) ==
    [raised |-> TRUE, log |-> Append(log, LogRec("WARNING", "Log cleanup warning", 0))]

cleanup_except(log) ==
    [raised |-> FALSE, log |-> Append(log, LogRec("WARNING", "Log cleanup warning", 0))]

\* cleanup_old_logs(logger): nothing if the directory is absent; otherwise the
\* loop, with any exception turned into a warning. raised: whether an
\* exception leaves the function.
cleanup_old_logs(dir, current_time, order, unreadable, failing) ==
    IF ~dir.exists THEN [dir |-> dir, raised |-> FALSE, log |-> << >>]
    ELSE LET r == cleanup_loop(order, 1, dir.files, current_time, unreadable, failing, << >>)
             h == IF r.raised THEN cleanup_except(r.log) ELSE [raised |-> FALSE, log |-> r.log]
         IN [dir |-> [exists |-> TRUE, files |-> r.files], raised |-> h.raised, log |-> h.log]

\* setup_logging(): log_dir.mkdir(exist_ok=True) and a FileHandler on the
\* master log, which every later record is appended to.
setup_logging(dir, current_time) ==
    [exists |-> TRUE,
     files |-> {f \in dir.files : ~(f.stem = "tigro_master_detailed" /\ f.ext = "log")}
               \cup {MasterLog(current_time)}]

\* ------------------------------------------------------------ copy_to_docs
\* A file name: the parts of its stem between underscores, and its extension.
FileName(stem, ext) == [stem |-> stem, ext |-> ext]

\* A file: its name and its content.
File(name, content) == [name |-> name, content |-> content]

IndexHtml == FileName(<< "index" >>, "html")

LatestReportName == FileName(<< "sentiment", "report", "latest" >>, "html")

\* Stands for the docs directory itself in the record of an rmtree or mkdir.
DocsDirName == FileName(<< "docs" >>, "")

\* Files the results directory may hold: the latest report, two per-entity
\* latest pages, a dated per-entity page, a page whose stem is just
\* articles_latest, and the summary CSV.
ResultsCandidates ==
    { File(LatestReportName, "report_v2"),
      File(FileName(<< "articles", "AAPL", "latest" >>, "html"), "aapl_v2"),
      File(FileName(<< "articles", "MSFT", "latest" >>, "html"), "msft_v2"),
      File(FileName(<< "articles", "AAPL", "20240101" >>, "html"), "aapl_v1"),
      File(FileName(<< "articles", "latest" >>, "html"), "list_v2"),
      File(FileName(<< "sentiment", "summary", "latest" >>, "csv"), "csv_v2") }

\* Files the docs directory may hold before a call: an index.html of an
\* earlier run and the page of an entity that is no longer in the results.
DocsCandidates ==
    { File(IndexHtml, "report_v1"),
      File(FileName(<< "articles", "GOOG", "latest" >>, "html"), "goog_v1") }

NoDocsDir == [exists |-> FALSE, files |-> {}]

DocsDirs == {NoDocsDir} \cup {[exists |-> TRUE, files |-> F] : F \in SUBSET DocsCandidates}

\* results_dir.glob("articles_*_latest.html"): the name starts with
\* "articles_", ends with "_latest.html", the two not overlapping.
glob_articles_any_html(files) ==
    {f \in files : f.name.ext = "html" /\ Len(f.name.stem) >= 2 /\ f.name.stem[1] = "articles"}

glob_articles(files) ==
    {f \in files : /\ f.name.ext = "html"
                   /\ Len(f.name.stem) >= 3
                   /\ f.name.stem[1] = "articles"
                   /\ f.name.stem[Len(f.name.stem)] = "latest"}

\* One file operation of copy_to_docs, as recorded in its trace.
FileOp(op, dst, ok) == [op |-> op, dst |-> dst, ok |-> ok]

\* The identity of a file operation in the set of operations that raise.
Fault(op, dst) == [op |-> op, dst |-> dst]

\* latest_report.exists()
latest_exists_unchecked(results) == TRUE

latest_exists(results) == \E f \in results : f.name = LatestReportName

\* shutil.copy2(src, docs_dir / dst): raises if the source is missing, if
\* the docs directory does not exist, or if the copy itself fails; otherwise
\* the destination holds the content of the source, replacing any file of
\* that name.
copy2(results, docs, src, dst, failing) ==
    IF \/ Fault("copy", dst) \in failing
       \/ ~docs.exists
       \/ ~\E f \in results : f.name = src
    THEN [raised |-> TRUE, docs |-> docs, trace |-> << FileOp("copy", dst, FALSE) >>]
    ELSE LET f == CHOOSE g \in results : g.name = src IN
         [raised |-> FALSE,
          docs |-> [exists |-> TRUE,
                    files |-> {g \in docs.files : g.name # dst} \cup {File(dst, f.content)}],
          trace |-> << FileOp("copy", dst, TRUE) >>]

\* "Clean docs directory first": rmtree if the directory exists, then
\* mkdir(exist_ok=True).
clean_docs_no_rmtree(docs, failing) ==
    IF Fault("mkdir", DocsDirName) \in failing
    THEN [raised |-> TRUE, docs |-> docs, trace |-> << FileOp("mkdir", DocsDirName, FALSE) >>,
          log |-> << >>]
    ELSE [raised |-> FALSE, docs |-> [exists |-> TRUE, files |-> docs.files],
          trace |-> << FileOp("mkdir", DocsDirName, TRUE) >>, log |-> << >>]

clean_docs_mkdir_only_if_absent(docs, failing) ==
    IF docs.exists
    THEN IF Fault("rmtree", DocsDirName) \in failing
         THEN [raised |-> TRUE, docs |-> docs, trace |-> << FileOp("rmtree", DocsDirName, FALSE) >>,
               log |-> << LogRec("INFO", "Cleaning docs directory of historic data", 0) >>]
         ELSE [raised |-> FALSE, docs |-> NoDocsDir,
               trace |-> << FileOp("rmtree", DocsDirName, TRUE) >>,
               log |-> << LogRec("INFO", "Cleaning docs directory of historic data", 0) >>]
    ELSE IF Fault("mkdir", DocsDirName) \in failing
    THEN [raised |-> TRUE, docs |-> docs, trace |-> << FileOp("mkdir", DocsDirName, FALSE) >>,
          log |-> << >>]
    ELSE [raised |-> FALSE, docs |-> [exists |-> TRUE, files |-> {}],
          trace |-> << FileOp("mkdir", DocsDirName, TRUE) >>, log |-> << >>]

clean_docs(docs, failing) ==
    LET cleaning == IF docs.exists
                    THEN << LogRec("INFO", "Cleaning docs directory of historic data", 0) >>
                    ELSE << >>
        rm == IF docs.exists THEN << FileOp("rmtree", DocsDirName, TRUE) >> ELSE << >>
    IN  IF docs.exists /\ Fault("rmtree", DocsDirName) \in failing
        THEN [raised |-> TRUE, docs |-> docs,
              trace |-> << FileOp("rmtree", DocsDirName, FALSE) >>, log |-> cleaning]
        ELSE IF Fault("mkdir", DocsDirName) \in failing
        THEN [raised |-> TRUE, docs |-> NoDocsDir,
              trace |-> rm \o << FileOp("mkdir", DocsDirName, FALSE) >>, log |-> cleaning]
        ELSE [raised |-> FALSE, docs |-> [exists |-> TRUE, files |-> {}],
              trace |-> rm \o << FileOp("mkdir", DocsDirName, TRUE) >>, log |-> cleaning]

\* The latest report copied as index.html and as sentiment_report_latest.html,
\* or a warning if there is none.
copy_latest(results, docs, failing) ==
    IF ~latest_exists(results)
    THEN [raised |-> FALSE, docs |-> docs, trace |-> << >>,
          log |-> << LogRec("WARNING", "No sentiment report found to copy", 0) >>]
    ELSE LET a == copy2(results, docs, LatestReportName, IndexHtml, failing) IN
         IF a.raised THEN [raised |-> TRUE, docs |-> a.docs, trace |-> a.trace, log |-> << >>]
         ELSE LET b == copy2(results, a.docs, LatestReportName, LatestReportName, failing) IN
              IF b.raised
              THEN [raised |-> TRUE, docs |-> b.docs, trace |-> a.trace \o b.trace, log |-> << >>]
              ELSE [raised |-> FALSE, docs |-> b.docs, trace |-> a.trace \o b.trace,
                    log |-> << LogRec("INFO", "Copied main dashboard as index.html and sentiment_report_latest.html", 0) >>]

\* The loop over the per-entity latest pages, in the order the listing yields
\* them; article_count counts the copies made.
RECURSIVE copy_articles(_, _, _, _, _, _, _)
copy_articles(results, order, i, docs, failing, trace, article_count) ==
    IF i > Len(order)
    THEN [raised |-> FALSE, docs |-> docs, trace |-> trace, article_count |-> article_count]
    ELSE LET c == copy2(results, docs, order[i].name, order[i].name, failing) IN
         IF c.raised
         THEN [raised |-> TRUE, docs |-> c.docs, trace |-> trace \o c.trace,
               article_count |-> article_count]
         ELSE copy_articles(results, order, i + 1, c.docs, failing, trace \o c.trace,
                            article_count + 1)

\* `except Exception as e: logger.error(...); return False`
copy_except_reraise(log) ==
    [ret |-> FALSE, raised |-> TRUE, log |-> Append(log, LogRec("ERROR", "Error copying files to docs", 0))]

copy_except(log) ==
    [ret |-> FALSE, raised |-> FALSE, log |-> Append(log, LogRec("ERROR", "Error copying files to docs", 0))]

\* copy_to_docs(logger). order: the order in which the glob yields the
\* per-entity pages; failing: the file operations that raise.
copy_to_docs(results, docs, order, failing) ==
    LET c == clean_docs(docs, failing) IN
    IF c.raised
    THEN LET h == copy_except(c.log) IN
         [ret |-> h.ret, raised |-> h.raised, docs |-> c.docs, trace |-> c.trace,
          article_count |-> 0, log |-> h.log]
    ELSE LET l == copy_latest(results, c.docs, failing) IN
         IF l.raised
         THEN LET h == copy_except(c.log \o l.log) IN
              [ret |-> h.ret, raised |-> h.raised, docs |-> l.docs, trace |-> c.trace \o l.trace,
               article_count |-> 0, log |-> h.log]
         ELSE LET a == copy_articles(results, order, 1, l.docs, failing, c.trace \o l.trace, 0) IN
              IF a.raised
              THEN LET h == copy_except(c.log \o l.log) IN
                   [ret |-> h.ret, raised |-> h.raised, docs |-> a.docs, trace |-> a.trace,
                    article_count |-> a.article_count, log |-> h.log]
              ELSE [ret |-> TRUE, raised |-> FALSE, docs |-> a.docs, trace |-> a.trace,
                    article_count |-> a.article_count,
                    log |-> c.log \o l.log
                            \o << LogRec("INFO", "Copied individual stock article pages (LATEST ONLY)",
                                          a.article_count),
                                  LogRec("INFO", "Sentiment dashboard will be available at", 0) >>]

\* ------------------------------------------------------------------- main
\* venv/bin/python if it exists, else sys.executable.
python_path(f) == IF f.venv_python THEN "venv/bin/python" ELSE "sys.executable"

\* The prerequisite check: both scripts must exist, the sentiment script is
\* looked at first.
prerequisites_sentiment_only(f) ==
    IF ~f.sentiment_script
    THEN [ok |-> FALSE, log |-> << LogRec("ERROR", "Missing sentiment script", 0) >>]
    ELSE [ok |-> TRUE, log |-> << LogRec("INFO", "All prerequisites checked successfully", 0) >>]

prerequisites(f) ==
    IF ~f.sentiment_script
    THEN [ok |-> FALSE, log |-> << LogRec("ERROR", "Missing sentiment script", 0) >>]
    ELSE IF ~f.dashboard_script
    THEN [ok |-> FALSE, log |-> << LogRec("ERROR", "Missing dashboard script", 0) >>]
    ELSE [ok |-> TRUE, log |-> << LogRec("INFO", "All prerequisites checked successfully", 0) >>]

\* What main does with the verdict of each Command Runner call.
Abort(msg) == [pc |-> "done", ret |-> "False", log |-> << LogRec("ERROR", msg, 0) >>]

Continue(to, level, msg) == [pc |-> to, ret |-> "none", log |-> << LogRec(level, msg, 0) >>]

after_collect(ok) ==
    IF ~ok THEN Abort("Sentiment analysis failed!")
    ELSE Continue("generate", "INFO", "Sentiment analysis completed successfully")

after_generate_ignore(ok) == Continue("stage", "INFO", "Dashboard generation completed successfully")

after_generate(ok) ==
    IF ~ok THEN Abort("Dashboard generation failed!")
    ELSE [pc |-> "stage", ret |-> "none",
          log |-> << LogRec("INFO", "Dashboard generation completed successfully", 0),
                     LogRec("INFO", "Syncing dashboard to GitHub Pages", 0) >>]

after_stage(ok) ==
    IF ~ok THEN Abort("Git add index.html failed!")
    ELSE [pc |-> "commit", ret |-> "none", log |-> << >>]

after_commit_fatal(ok) ==
    IF ~ok THEN Abort("Git commit failed")
    ELSE [pc |-> "push", ret |-> "none", log |-> << >>]

after_commit_skip_push(ok) ==
    IF ~ok THEN Continue("report", "WARNING", "Git commit failed - possibly no changes to dashboard")
    ELSE [pc |-> "push", ret |-> "none", log |-> << >>]

after_commit(ok) ==
    IF ~ok THEN Continue("push", "WARNING", "Git commit failed - possibly no changes to dashboard")
    ELSE [pc |-> "push", ret |-> "none", log |-> << >>]

after_push_fatal(ok) ==
    IF ~ok THEN Abort("Git push failed")
    ELSE Continue("report", "INFO", "Successfully synced latest dashboard to GitHub")

after_push_retry(ok) ==
    IF ~ok THEN Continue("push", "WARNING", "Git push failed - dashboard may not be updated on GitHub")
    ELSE Continue("report", "INFO", "Successfully synced latest dashboard to GitHub")

after_push(ok) ==
    IF ~ok THEN Continue("report", "WARNING", "Git push failed - dashboard may not be updated on GitHub")
    ELSE Continue("report", "INFO", "Successfully synced latest dashboard to GitHub")

\* What the email collaborator does in one run: whether its module and pandas
\* import, whether SentimentEmailSender() constructs, and what send_email does.
EmailEnvs == [import_ok : BOOLEAN, ctor_ok : BOOLEAN, send : {"True", "False", "raise"}]

EmailError == << LogRec("ERROR", "Email error", 0), LogRec("ERROR", "Email traceback", 0) >>

\* `except Exception as e:` of the Report step: two error records, and the
\* exception is dropped.
email_except_reraise(log) == [raised |-> TRUE, sent |-> << >>, log |-> log \o EmailError]

email_except(log) == [raised |-> FALSE, sent |-> << >>, log |-> log \o EmailError]

\* The Report step: the try block that imports the sender, loads the summary
\* if the file exists, and sends it; every exception is logged and dropped.
\* sent is the sequence of dataframes handed to send_email.
email_report(summary, env) ==
    LET head == << LogRec("INFO", "Sending email report", 0) >> IN
    IF ~env.import_ok THEN email_except(head)
    ELSE IF ~summary.exists
    THEN [raised |-> FALSE, sent |-> << >>,
          log |-> head \o << LogRec("ERROR", "No sentiment data file found for email", 0) >>]
    ELSE LET r == read_csv(summary.lines) IN
         IF r.kind = "raise" THEN email_except(head)
         ELSE LET loaded == head \o << LogRec("INFO", "Loaded sentiment data for stocks", Len(r.df)) >> IN
              IF ~env.ctor_ok THEN email_except(loaded)
              ELSE IF env.send = "raise"
              THEN [email_except(loaded) EXCEPT !.sent = << r.df >>]
              ELSE [raised |-> FALSE, sent |-> << r.df >>,
                    log |-> loaded \o
                       (IF env.send = "True"
                        THEN << LogRec("INFO", "Email report sent successfully", 0) >>
                        ELSE << LogRec("ERROR", "Email report failed to send", 0) >>)]

\* ------------------------------------------------------------------ state
VARIABLES
    entry,      \* the function under execution: "run_command_with_logging", "main", ...
    pc,         \* position of the execution
    rc_in,      \* direct call of the runner: its arguments and the outcomes
    rc_out,     \* direct call of the runner: its result
    fs,         \* the files main looks at
    steps,      \* main: the steps begun so far, in order
    calls,      \* main: the Command Runner calls made so far, with their results
    emails,     \* main: the dataframes handed to send_email so far
    email_env,  \* main: how the email collaborator behaved in the Report step
    cleanups,   \* main: number of times cleanup_old_logs has run
    logs_dir,   \* the logs directory
    os_environ, \* os.environ of the running process
    rc_env,     \* the last runner call: os.environ before and after, and the child's env
    results_dir, \* the files of the results directory
    docs_dir,   \* the docs directory: whether it exists, and its files
    cp_calls,   \* the calls of copy_to_docs made so far, with their effects
    cl_in,      \* direct call of cleanup_old_logs: listing order and failing files
    cl_out,     \* the last call of cleanup_old_logs: directory before and after
    log,        \* main: the records written by main and its callees
    main_ret,   \* main: "none" while running, then "True", "False" or "raised"
    pg_in,      \* direct call of push_to_github: the outcomes of its commands
    pg_out      \* direct call of push_to_github: its result

vars == << entry, pc, rc_in, rc_out, fs, steps, calls, emails, email_env, cleanups, logs_dir,
          os_environ, rc_env, results_dir, docs_dir, cp_calls, cl_in, cl_out, log, main_ret, pg_in, pg_out >>

copyVars == << results_dir, docs_dir, cp_calls >>

pushVars == << pg_in, pg_out >>

envVars == << os_environ, rc_env >>

mainVars == << fs, steps, calls, emails, email_env, cleanups, log, main_ret >>

cleanupVars == << logs_dir, cl_in, cl_out >>

DirectCommands == {"git", "python"}

RunnerInputs ==
    UNION {[command : DirectCommands, max_retries : {k}, outcomes : [1..k -> Outcomes]] :
             k \in 1..MaxRetriesBound}

NoInput == [command |-> "none", max_retries |-> 0, outcomes |-> << >>]

NoFileSystem ==
    [sentiment_script |-> FALSE, dashboard_script |-> FALSE, venv_python |-> FALSE,
     summary |-> [exists |-> FALSE, lines |-> << >>]]

NoEmailEnv == [import_ok |-> FALSE, ctor_ok |-> FALSE, send |-> "none"]

InitMainVars ==
    /\ steps = << >>
    /\ email_env = NoEmailEnv
    /\ calls = << >>
    /\ emails = << >>
    /\ cleanups = 0
    /\ log = << >>
    /\ main_ret = "none"

\* Path.cwd(), the project root.
Cwd == "/project"

\* os.environ when the program starts: PYTHONPATH unset or holding one or two
\* entries, and one other variable.
Environs ==
    [PYTHONPATH : {<< >>, << "/opt/lib" >>, << "/opt/lib", "/srv/shared" >>}, PATH : {"/usr/bin"}]

MainEnviron == [PYTHONPATH |-> << "/opt/lib" >>, PATH |-> "/usr/bin"]

NoRunnerEnv ==
    [called |-> FALSE, before |-> MainEnviron, after |-> MainEnviron, env |-> MainEnviron]

NoLogDir == [exists |-> FALSE, files |-> {}]

NoCleanupInput == [order |-> << >>, unreadable |-> {}, failing |-> {}]

NoCleanupResult == [called |-> FALSE, before |-> NoLogDir, after |-> NoLogDir, raised |-> FALSE, log |-> << >>]

\* The logs directories cleanup_old_logs is called on directly: absent, or any
\* set of these files (two old logs, one at the boundary, one new, one old
\* file that is no log).
DirectLogFiles ==
    { LogFile("cron_old", "log", Now - RetentionSeconds - 1),
      LogFile("run_old", "log", Now - RetentionSeconds - 2),
      LogFile("cron_edge", "log", Now - RetentionSeconds),
      LogFile("cron_new", "log", Now - RetentionSeconds + 1),
      LogFile("notes", "txt", Now - RetentionSeconds - 1) }

DirectLogDirs ==
    {NoLogDir} \cup {[exists |-> TRUE, files |-> F] : F \in {G \in SUBSET DirectLogFiles : Cardinality(glob_log(G)) <= MaxLogFiles}}

CleanupInputs(dir) ==
    [order : Orders(glob_log(dir.files)), unreadable : SUBSET glob_log(dir.files),
     failing : SUBSET glob_log(dir.files)]

MainCleanupInputs(dir) ==
    {e \in CleanupInputs(dir) : Cardinality(e.unreadable \cup e.failing) <= MaxMainFaults}

NoPushInput == << >>

NoPushResult == [called |-> FALSE, ret |-> FALSE, raised |-> FALSE, trace |-> << >>, log |-> << >>]

InitNoPush ==
    /\ pg_in = NoPushInput
    /\ pg_out = NoPushResult

InitNoCopy ==
    /\ results_dir = {}
    /\ docs_dir = NoDocsDir
    /\ cp_calls = << >>

\* The file operations of one call of copy_to_docs that may raise.
PossibleFaults(results) ==
    { Fault("rmtree", DocsDirName), Fault("mkdir", DocsDirName),
      Fault("copy", IndexHtml), Fault("copy", LatestReportName) }
    \cup {Fault("copy", f.name) : f \in glob_articles(results)}

CopyFaults(results) ==
    {F \in SUBSET PossibleFaults(results) : Cardinality(F) <= MaxCopyFaults}

InitRunner ==
    /\ entry = "run_command_with_logging"
    /\ pc = "call"
    /\ rc_in \in RunnerInputs
    /\ rc_out = NoResult
    /\ os_environ \in Environs
    /\ rc_env = NoRunnerEnv
    /\ InitNoCopy
    /\ InitNoPush
    /\ fs = NoFileSystem
    /\ logs_dir = NoLogDir
    /\ cl_in = NoCleanupInput
    /\ cl_out = NoCleanupResult
    /\ InitMainVars

InitMain ==
    /\ entry = "main"
    /\ pc = "prereq"
    /\ rc_in = NoInput
    /\ rc_out = NoResult
    /\ os_environ = MainEnviron
    /\ rc_env = NoRunnerEnv
    /\ InitNoCopy
    /\ InitNoPush
    /\ fs \in FileSystems
    /\ logs_dir \in LogDirs
    /\ cl_in = NoCleanupInput
    /\ cl_out = NoCleanupResult
    /\ InitMainVars

InitCleanup ==
    /\ entry = "cleanup_old_logs"
    /\ pc = "call"
    /\ rc_in = NoInput
    /\ rc_out = NoResult
    /\ os_environ = MainEnviron
    /\ rc_env = NoRunnerEnv
    /\ InitNoCopy
    /\ InitNoPush
    /\ fs = NoFileSystem
    /\ logs_dir \in DirectLogDirs
    /\ cl_in \in CleanupInputs(logs_dir)
    /\ cl_out = NoCleanupResult
    /\ InitMainVars

InitCopy ==
    /\ entry = "copy_to_docs"
    /\ pc = "call"
    /\ rc_in = NoInput
    /\ rc_out = NoResult
    /\ os_environ = MainEnviron
    /\ rc_env = NoRunnerEnv
    /\ results_dir \in SUBSET ResultsCandidates
    /\ docs_dir \in DocsDirs
    /\ cp_calls = << >>
    /\ InitNoPush
    /\ fs = NoFileSystem
    /\ logs_dir = NoLogDir
    /\ cl_in = NoCleanupInput
    /\ cl_out = NoCleanupResult
    /\ InitMainVars

InitPush ==
    /\ entry = "push_to_github"
    /\ pc = "call"
    /\ rc_in = NoInput
    /\ rc_out = NoResult
    /\ os_environ = MainEnviron
    /\ rc_env = NoRunnerEnv
    /\ InitNoCopy
    /\ pg_in \in PushOutcomes
    /\ pg_out = NoPushResult
    /\ fs = NoFileSystem
    /\ logs_dir = NoLogDir
    /\ cl_in = NoCleanupInput
    /\ cl_out = NoCleanupResult
    /\ InitMainVars

Init == InitRunner \/ InitMain \/ InitCleanup \/ InitCopy \/ InitPush

\* A caller invokes run_command_with_logging and gets its result.
CallRunner ==
    /\ entry = "run_command_with_logging"
    /\ pc = "call"
    /\ rc_out' = run_command_with_logging(rc_in.outcomes, rc_in.max_retries)
    /\ LET e == env_setup(os_environ, Cwd) IN
       /\ os_environ' = e.environ
       /\ rc_env' = [called |-> TRUE, before |-> os_environ, after |-> e.environ, env |-> e.env]
    /\ pc' = "returned"
    /\ UNCHANGED << entry, rc_in >>
    /\ UNCHANGED mainVars
    /\ UNCHANGED cleanupVars
    /\ UNCHANGED copyVars
    /\ UNCHANGED pushVars

\* A caller invokes push_to_github.
CallPushToGithub ==
    /\ entry = "push_to_github"
    /\ pc = "call"
    /\ LET r == push_to_github(pg_in) IN
       pg_out' = [called |-> TRUE, ret |-> r.ret, raised |-> r.raised,
                  trace |-> r.trace, log |-> r.log]
    /\ pc' = "returned"
    /\ UNCHANGED << entry, rc_in, rc_out, pg_in >>
    /\ UNCHANGED mainVars
    /\ UNCHANGED cleanupVars
    /\ UNCHANGED copyVars
    /\ UNCHANGED envVars

\* A caller invokes cleanup_old_logs.
CallCleanup ==
    /\ entry = "cleanup_old_logs"
    /\ pc = "call"
    /\ LET r == cleanup_old_logs(logs_dir, Now, cl_in.order, cl_in.unreadable, cl_in.failing) IN
       /\ logs_dir' = r.dir
       /\ cl_out' = [called |-> TRUE, before |-> logs_dir, after |-> r.dir,
                     raised |-> r.raised, log |-> r.log]
    /\ pc' = "returned"
    /\ UNCHANGED << entry, rc_in, rc_out, cl_in >>
    /\ UNCHANGED mainVars
    /\ UNCHANGED envVars
    /\ UNCHANGED copyVars
    /\ UNCHANGED pushVars

\* A caller invokes copy_to_docs, once or several times in succession.
CallCopyToDocs ==
    /\ entry = "copy_to_docs"
    /\ pc \in {"call", "returned"}
    /\ Len(cp_calls) < MaxCopyCalls
    /\ \E order \in Orders(glob_articles(results_dir)), failing \in CopyFaults(results_dir) :
         LET r == copy_to_docs(results_dir, docs_dir, order, failing) IN
         /\ docs_dir' = r.docs
         /\ cp_calls' = Append(cp_calls,
                [results |-> results_dir, before |-> docs_dir, after |-> r.docs,
                 ret |-> r.ret, raised |-> r.raised, trace |-> r.trace, failing |-> failing,
                 reported |-> {r.log[i].n : i \in {j \in DOMAIN r.log :
                                  r.log[j].msg = "Copied individual stock article pages (LATEST ONLY)"}}])
    /\ pc' = "returned"
    /\ UNCHANGED << entry, rc_in, rc_out, results_dir >>
    /\ UNCHANGED pushVars
    /\ UNCHANGED mainVars
    /\ UNCHANGED cleanupVars
    /\ UNCHANGED envVars

\* main up to the end of the prerequisite check.
MainPrereq ==
    /\ entry = "main"
    /\ pc = "prereq"
    /\ LET p == prerequisites(fs) IN
       /\ steps' = Append(steps, "prereq")
       /\ log' = log \o << LogRec("INFO", "TIGRO DAILY AUTOMATION STARTED", 0),
                           LogRec("INFO", "Checking prerequisites", 0) >> \o p.log
       /\ pc' = IF p.ok THEN "collect" ELSE "done"
       /\ main_ret' = IF p.ok THEN "none" ELSE "False"
    /\ logs_dir' = setup_logging(logs_dir, Now)
    /\ UNCHANGED << entry, rc_in, rc_out, fs, calls, emails, email_env, cleanups, cl_in, cl_out >>
    /\ UNCHANGED envVars
    /\ UNCHANGED copyVars
    /\ UNCHANGED pushVars

\* One step of main that is a call of run_command_with_logging followed by
\* main's reaction to the verdict (after).
RunnerStep(step, command, max_retries, intro, outs, res, after) ==
    /\ steps' = Append(steps, step)
    /\ calls' = Append(calls, [step |-> step, command |-> command, max_retries |-> max_retries,
                               ret |-> res.ret, raised |-> res.raised, trace |-> res.trace])
    /\ log' = log \o intro \o res.log \o (IF res.raised THEN << >> ELSE after.log)
    /\ pc' = IF res.raised THEN "done" ELSE after.pc
    /\ main_ret' = IF res.raised THEN "raised" ELSE after.ret
    /\ LET e == env_setup(os_environ, Cwd) IN
       /\ os_environ' = e.environ
       /\ rc_env' = [called |-> TRUE, before |-> os_environ, after |-> e.environ, env |-> e.env]
    /\ UNCHANGED << entry, rc_in, rc_out, fs, emails, email_env, cleanups >>
    /\ UNCHANGED cleanupVars
    /\ UNCHANGED copyVars
    /\ UNCHANGED pushVars

\* Step 1: Sentiment Analysis.
MainCollect ==
    /\ entry = "main"
    /\ pc = "collect"
    /\ \E outs \in [1..DefaultMaxRetries -> Outcomes] :
         LET res == run_command_with_logging(outs, DefaultMaxRetries) IN
         RunnerStep("collect", << python_path(fs), "sent_collect_data.py" >>, DefaultMaxRetries,
                    << LogRec("INFO", "Starting sentiment analysis", 0) >>,
                    outs, res, after_collect(res.ret))

\* Step 2: Dashboard Generation.
MainGenerate ==
    /\ entry = "main"
    /\ pc = "generate"
    /\ \E outs \in [1..DefaultMaxRetries -> Outcomes] :
         LET res == run_command_with_logging(outs, DefaultMaxRetries) IN
         RunnerStep("generate", << python_path(fs), "viz_dashboard_generator.py" >>, DefaultMaxRetries,
                    << LogRec("INFO", "Generating dashboard", 0) >>,
                    outs, res, after_generate(res.ret))

\* Step 3: git add index.html.
MainStage ==
    /\ entry = "main"
    /\ pc = "stage"
    /\ \E outs \in [1..GitMaxRetries -> Outcomes] :
         LET res == run_command_with_logging(outs, GitMaxRetries) IN
         RunnerStep("stage", << "git", "add", "index.html" >>, GitMaxRetries,
                    << >>, outs, res, after_stage(res.ret))

\* Step 3: git commit.
MainCommit ==
    /\ entry = "main"
    /\ pc = "commit"
    /\ \E outs \in [1..GitMaxRetries -> Outcomes] :
         LET res == run_command_with_logging(outs, GitMaxRetries) IN
         RunnerStep("commit", << "git", "commit", "-m", "Daily dashboard update" >>, GitMaxRetries,
                    << >>, outs, res, after_commit(res.ret))

\* Step 3: git push origin gh-pages.
MainPush ==
    /\ entry = "main"
    /\ pc = "push"
    /\ \E outs \in [1..PushMaxRetries -> Outcomes] :
         LET res == run_command_with_logging(outs, PushMaxRetries) IN
         RunnerStep("push", << "git", "push", "origin", "gh-pages" >>, PushMaxRetries,
                    << >>, outs, res, after_push(res.ret))

\* Step 5: Email Report.
MainReport ==
    /\ entry = "main"
    /\ pc = "report"
    /\ \E env \in EmailEnvs :
         LET r == email_report(fs.summary, env) IN
         /\ emails' = emails \o r.sent
         /\ email_env' = env
         /\ log' = log \o r.log
         /\ pc' = IF r.raised THEN "done" ELSE "cleanup"
         /\ main_ret' = IF r.raised THEN "raised" ELSE main_ret
    /\ steps' = Append(steps, "report")
    /\ UNCHANGED << entry, rc_in, rc_out, fs, calls, cleanups >>
    /\ UNCHANGED cleanupVars
    /\ UNCHANGED envVars
    /\ UNCHANGED copyVars
    /\ UNCHANGED pushVars

\* Step 6: Cleanup, the final summary and `return True`.
MainCleanup ==
    /\ entry = "main"
    /\ pc = "cleanup"
    /\ steps' = Append(steps, "cleanup")
    /\ cleanups' = cleanups + 1
    /\ \E e \in MainCleanupInputs(logs_dir) :
         LET r == cleanup_old_logs(logs_dir, Now, e.order, e.unreadable, e.failing) IN
         /\ logs_dir' = r.dir
         /\ cl_out' = [called |-> TRUE, before |-> logs_dir, after |-> r.dir,
                       raised |-> r.raised, log |-> r.log]
         /\ log' = log \o << LogRec("INFO", "Cleaning up old log files", 0) >> \o r.log
                        \o (IF r.raised THEN << >>
                            ELSE << LogRec("INFO", "Log cleanup completed", 0),
                                    LogRec("INFO", "DAILY AUTOMATION COMPLETED SUCCESSFULLY", 0) >>)
         /\ main_ret' = IF r.raised THEN "raised" ELSE "True"
    /\ pc' = "done"
    /\ UNCHANGED << entry, rc_in, rc_out, fs, calls, emails, email_env, cl_in >>
    /\ UNCHANGED envVars
    /\ UNCHANGED copyVars
    /\ UNCHANGED pushVars

Next ==
    \/ CallRunner
    \/ CallCleanup
    \/ CallCopyToDocs
    \/ CallPushToGithub
    \/ MainPrereq
    \/ MainCollect
    \/ MainGenerate
    \/ MainStage
    \/ MainCommit
    \/ MainPush
    \/ MainReport
    \/ MainCleanup

Spec == Init /\ [][Next]_vars

\* A run of main on its own. main is sequential code: once a statement has returned the interpreter goes
\* on to the next one, and every external command invocation and the email
\* send are taken to return. A step that is possible is therefore taken.
MainNext ==
    \/ MainPrereq
    \/ MainCollect
    \/ MainGenerate
    \/ MainStage
    \/ MainCommit
    \/ MainPush
    \/ MainReport
    \/ MainCleanup

FairSpec == InitMain /\ [][MainNext]_vars /\ WF_vars(MainNext)

\* ----------------------------------------------------------------- claims
\* Every finished call of run_command_with_logging: the direct one and those
\* main has made.
DirectCall ==
    [step |-> "direct", command |-> << rc_in.command >>, max_retries |-> rc_in.max_retries,
     ret |-> rc_out.ret, raised |-> rc_out.raised, trace |-> rc_out.trace]

FinishedCalls ==
    {calls[i] : i \in DOMAIN calls}
    \cup (IF entry = "run_command_with_logging" /\ pc = "returned" THEN {DirectCall} ELSE {})

IsRun(e) == e.ev = "run"

ExitedZero(e) == e.ev = "run" /\ e.kind = "exit" /\ e.code = 0

ExitedNonZero(e) == e.ev = "run" /\ e.kind = "exit" /\ e.code # 0

RaisedIn(e) == e.ev = "run" /\ e.kind = "raise"

RunCount(tr) == Cardinality({i \in DOMAIN tr : IsRun(tr[i])})

CallsOf(step) == {i \in DOMAIN calls : calls[i].step = step}

StepSucceeded(step) == \E i \in CallsOf(step) : calls[i].ret

StepFailed(step) == \E i \in CallsOf(step) : ~calls[i].ret

FirstExitZero(step) == \E i \in CallsOf(step) : ExitedZero(calls[i].trace[1])

Logged(level, msg) == \E i \in DOMAIN log : log[i].level = level /\ log[i].msg = msg

ScriptsPresent == fs.sentiment_script /\ fs.dashboard_script

MainDone == entry = "main" /\ pc = "done"

\* C1: a call returns False on account of non-zero exits only after
\* max_retries invocations that all exited non-zero; a non-zero exit on an
\* earlier attempt never ends the call with False.
C1_FalseOnlyAfterAllAttemptsFailed ==
    \A c \in FinishedCalls :
        (~c.ret /\ ~c.raised /\ ExitedNonZero(c.trace[Len(c.trace)]))
        => /\ RunCount(c.trace) = c.max_retries
           /\ \A i \in DOMAIN c.trace : IsRun(c.trace[i]) => ExitedNonZero(c.trace[i])

\* C2: a call invokes the command at most max_retries times, an invocation
\* that exits zero is the last thing the call does, and the call then
\* returns True.
C2_AtMostKAndTrueOnFirstZero ==
    \A c \in FinishedCalls :
        /\ RunCount(c.trace) <= c.max_retries
        /\ \A i \in DOMAIN c.trace :
              ExitedZero(c.trace[i]) => (i = Len(c.trace) /\ c.ret /\ ~c.raised)

C2_Witness ==
    /\ entry = "run_command_with_logging"
    /\ pc = "returned"
    /\ rc_in.max_retries >= 2
    /\ rc_in.outcomes[1].kind = "exit" /\ rc_in.outcomes[1].code = 0
    /\ rc_in.outcomes[2].kind = "exit" /\ rc_in.outcomes[2].code # 0
    /\ rc_out.ret
    /\ RunCount(rc_out.trace) = 1

\* C6: every attempt that exits non-zero while attempts remain is followed by
\* one 5-second sleep and then another invocation; no sleep follows a
\* successful attempt or the last allowed attempt.
C6_NonZeroExitIsRetriedAfterDelay ==
    \A c \in FinishedCalls :
        \A i \in DOMAIN c.trace :
            /\ (ExitedNonZero(c.trace[i]) /\ c.trace[i].attempt < c.max_retries)
               => /\ i + 2 <= Len(c.trace)
                  /\ c.trace[i + 1].ev = "sleep" /\ c.trace[i + 1].code = RetryDelay
                  /\ IsRun(c.trace[i + 2])
            /\ (i < Len(c.trace) /\ c.trace[i + 1].ev = "sleep")
               => (~ExitedZero(c.trace[i]) /\ c.trace[i].attempt < c.max_retries)

\* C7: no exception leaves a call; an invocation that raises something other
\* than a non-zero exit is the last thing the call does (no sleep, no further
\* invocation) and the call returns False.
C7_ExceptionReturnsFalseAtOnce ==
    \A c \in FinishedCalls :
        /\ ~c.raised
        /\ \A i \in DOMAIN c.trace : RaisedIn(c.trace[i]) => (i = Len(c.trace) /\ ~c.ret)

C7_Witness ==
    /\ entry = "run_command_with_logging"
    /\ pc = "returned"
    /\ rc_in.max_retries >= 2
    /\ rc_in.outcomes[1].kind = "raise"
    /\ rc_in.outcomes[2].kind = "exit" /\ rc_in.outcomes[2].code = 0
    /\ ~rc_out.ret /\ ~rc_out.raised
    /\ Len(rc_out.trace) = 1

C4_MissingScriptAbortsBeforeAnyStep ==
    (entry = "main" /\ ~ScriptsPresent) =>
        /\ calls = << >>
        /\ emails = << >>
        /\ cleanups = 0
        /\ \A i \in DOMAIN steps : steps[i] = "prereq"
        /\ pc = "done" => main_ret = "False"

C4_Witness ==
    /\ MainDone
    /\ fs.sentiment_script
    /\ ~fs.dashboard_script
    /\ main_ret = "False"
    /\ steps = << "prereq" >>

\* C5: if Collect, Generate and staging succeeded and the push failed, main
\* goes on to Report and Cleanup, logs a warning and returns True.
C5_PushFailureIsOnlyAWarning ==
    (entry = "main" /\ StepSucceeded("collect") /\ StepSucceeded("generate")
       /\ StepSucceeded("stage") /\ StepFailed("push")) =>
        /\ pc \in {"report", "cleanup", "done"}
        /\ Logged("WARNING", "Git push failed - dashboard may not be updated on GitHub")
        /\ main_ret # "False" /\ main_ret # "raised"
        /\ pc = "done" =>
              /\ main_ret = "True"
              /\ SubSeq(steps, Len(steps) - 2, Len(steps)) = << "push", "report", "cleanup" >>
              /\ cleanups = 1

C5_Witness ==
    /\ MainDone
    /\ StepSucceeded("commit")
    /\ StepFailed("push")
    /\ main_ret = "True"
    /\ cleanups = 1

\* C8: the steps of a run happen in the order prerequisite check, Collect,
\* Generate, stage, commit, push, Report, Cleanup, each at most once; Generate
\* starts only after Collect succeeded, and version-control commands, the
\* email send and housekeeping happen only after Generate succeeded.
StepOrder == << "prereq", "collect", "generate", "stage", "commit", "push", "report", "cleanup" >>

StepIndex(s) == CHOOSE k \in DOMAIN StepOrder : StepOrder[k] = s

C8_StepsInOrderAndGated ==
    entry = "main" =>
        /\ \A i \in DOMAIN steps : \E k \in DOMAIN StepOrder : StepOrder[k] = steps[i]
        /\ \A i, j \in DOMAIN steps : i < j => StepIndex(steps[i]) < StepIndex(steps[j])
        /\ \A i \in DOMAIN calls : \E j \in DOMAIN steps : steps[j] = calls[i].step
        /\ (\E i \in DOMAIN steps : steps[i] = "generate") => StepSucceeded("collect")
        /\ (\/ \E i \in DOMAIN steps : steps[i] \in {"stage", "commit", "push", "report", "cleanup"}
            \/ \E i \in DOMAIN calls : calls[i].command[1] = "git"
            \/ emails # << >>
            \/ cleanups > 0)
           => StepSucceeded("generate")

C8_Witness ==
    /\ MainDone
    /\ steps = StepOrder
    /\ Len(emails) = 1
    /\ cleanups = 1

\* C9: a failed commit is only a warning: the push is still attempted, Report
\* and Cleanup still run, and main returns True.
C9_CommitFailureIsOnlyAWarning ==
    (entry = "main" /\ StepFailed("commit")) =>
        /\ Logged("WARNING", "Git commit failed - possibly no changes to dashboard")
        /\ main_ret # "False" /\ main_ret # "raised"
        /\ pc # "push" => CallsOf("push") # {}
        /\ pc = "done" =>
              /\ main_ret = "True"
              /\ SubSeq(steps, Len(steps) - 3, Len(steps)) = << "commit", "push", "report", "cleanup" >>
              /\ cleanups = 1

C9_Witness ==
    /\ MainDone
    /\ StepFailed("commit")
    /\ StepSucceeded("push")
    /\ main_ret = "True"

\* What a run that invoked each of Collect and Generate once, sent the loaded
\* summary once and returned True looks like.
RanOnceSentOnceReturnedTrue ==
    /\ Cardinality(CallsOf("collect")) = 1
    /\ \A i \in CallsOf("collect") : RunCount(calls[i].trace) = 1
    /\ Cardinality(CallsOf("generate")) = 1
    /\ \A i \in CallsOf("generate") : RunCount(calls[i].trace) = 1
    /\ Len(emails) = 1
    /\ Len(emails[1]) = Len(fs.summary.lines) - 1
    /\ \A r \in DOMAIN emails[1] : emails[1][r] = fs.summary.lines[r + 1]
    /\ main_ret = "True"
    /\ \A i, j \in DOMAIN steps : steps[i] = steps[j] => i = j

C11_ReportFailureChangesNothing ==
    entry = "main" =>
        /\ emails # << >> => fs.summary.exists
        /\ (\E i \in DOMAIN steps : steps[i] = "report") =>
              /\ pc \in {"cleanup", "done"}
              /\ main_ret \in {"none", "True"}
              /\ pc = "done" => (main_ret = "True" /\ cleanups = 1
                                 /\ steps[Len(steps)] = "cleanup")

C11_Witness ==
    /\ MainDone
    /\ fs.summary.exists
    /\ email_env.import_ok /\ email_env.ctor_ok /\ email_env.send = "raise"
    /\ Len(emails) = 1
    /\ Logged("ERROR", "Email traceback")
    /\ cleanups = 1
    /\ main_ret = "True"

C17_DeletesOnlyStrictlyOldLogs ==
    cl_out.called =>
        /\ cl_out.after.files \subseteq cl_out.before.files
        /\ \A f \in cl_out.before.files :
              (f.ext # "log" \/ f.mtime >= Now - RetentionSeconds) => f \in cl_out.after.files

C17_Witness ==
    /\ entry = "cleanup_old_logs"
    /\ cl_out.called
    /\ \E f \in cl_out.before.files : f.ext = "log" /\ f.mtime = Now - RetentionSeconds
    /\ \E f \in cl_out.before.files : f.ext = "txt" /\ f.mtime < Now - RetentionSeconds
    /\ \E f \in cl_out.before.files \ cl_out.after.files : f.mtime = Now - RetentionSeconds - 1

\* C20: when cleanup_old_logs returns, every log file older than the
\* retention window whose own deletion did not fail has been deleted: a
\* failure on one file does not keep the other old files from being deleted.
C20_EveryOldLogIsDeleted ==
    (entry = "cleanup_old_logs" /\ cl_out.called) =>
        \A f \in cl_out.before.files :
            (f.ext = "log" /\ f.mtime < Now - RetentionSeconds
               /\ f \notin cl_in.failing /\ f \notin cl_in.unreadable)
            => f \notin cl_out.after.files

\* C18: the command runs with the caller's environment in which PYTHONPATH
\* is extended by the project root, its previous entries kept and every other
\* variable unchanged; the environment of the calling process is unchanged.
EntriesOf(path) == {path[i] : i \in DOMAIN path}

C18_ChildPythonPathExtended ==
    rc_env.called =>
        /\ Cwd \in EntriesOf(rc_env.env.PYTHONPATH)
        /\ EntriesOf(rc_env.before.PYTHONPATH) \subseteq EntriesOf(rc_env.env.PYTHONPATH)
        /\ rc_env.env.PATH = rc_env.before.PATH
        /\ rc_env.after = rc_env.before

\* Helpers for the claims about copy_to_docs.
NamesIn(files) == {f.name : f \in files}

CopiedNames(c) == {c.trace[k].dst : k \in {j \in DOMAIN c.trace : c.trace[j].op = "copy" /\ c.trace[j].ok}}

IsEntityLatest(n) ==
    /\ n.ext = "html"
    /\ Len(n.stem) >= 3
    /\ n.stem[1] = "articles"
    /\ n.stem[Len(n.stem)] = "latest"

HasLatestReport(files) == LatestReportName \in NamesIn(files)

\* C13: after a successful copy_to_docs no file that was in the docs
\* directory before the call, and was not copied by the call, is in it.
C13_PriorDocsContentsDiscarded ==
    \A i \in DOMAIN cp_calls :
        cp_calls[i].ret =>
            \A f \in cp_calls[i].before.files :
                f.name \notin CopiedNames(cp_calls[i]) => f.name \notin NamesIn(cp_calls[i].after.files)

C13_Witness ==
    \E i \in DOMAIN cp_calls :
        /\ cp_calls[i].ret
        /\ cp_calls[i].before.files = DocsCandidates
        /\ IndexHtml \in NamesIn(cp_calls[i].after.files)
        /\ Cardinality(cp_calls[i].after.files) >= 3

\* C14: two calls in succession on the same results directory, with no file
\* operation failing, leave the docs directory as the first call left it.
C14_CopyIsIdempotent ==
    \A i \in DOMAIN cp_calls :
        (i > 1 /\ cp_calls[i].failing = {} /\ cp_calls[i - 1].failing = {}
           /\ cp_calls[i].results = cp_calls[i - 1].results)
        => /\ cp_calls[i].after = cp_calls[i - 1].after
           /\ cp_calls[i].ret = cp_calls[i - 1].ret

C14_Witness ==
    /\ Len(cp_calls) = 2
    /\ cp_calls[1].failing = {} /\ cp_calls[2].failing = {}
    /\ cp_calls[1].before.files = DocsCandidates
    /\ cp_calls[1].ret /\ cp_calls[2].ret
    /\ Cardinality(cp_calls[2].after.files) >= 3
    /\ cp_calls[2].after = cp_calls[1].after

\* C15: with the latest report missing from the results directory (and no
\* file operation failing) copy_to_docs returns True, creates neither
\* index.html nor sentiment_report_latest.html, and copies every per-entity
\* latest page.
C15_MissingLatestReportIsNotFatal ==
    \A i \in DOMAIN cp_calls :
        (~HasLatestReport(cp_calls[i].results) /\ cp_calls[i].failing = {})
        => /\ cp_calls[i].ret
           /\ IndexHtml \notin NamesIn(cp_calls[i].after.files)
           /\ LatestReportName \notin NamesIn(cp_calls[i].after.files)
           /\ \A f \in cp_calls[i].results : IsEntityLatest(f.name) => f \in cp_calls[i].after.files

C15_Witness ==
    \E i \in DOMAIN cp_calls :
        /\ ~HasLatestReport(cp_calls[i].results)
        /\ cp_calls[i].failing = {}
        /\ IndexHtml \in NamesIn(cp_calls[i].before.files)
        /\ cp_calls[i].ret
        /\ Cardinality(cp_calls[i].after.files) = 2

\* C16: no exception leaves copy_to_docs or cleanup_old_logs. In copy_to_docs
\* a file operation that raises is the last one made and the call returns
\* False; in cleanup_old_logs a stat or unlink that raises is logged as a
\* warning and the call returns normally.
CleanupFaultHit ==
    \E f \in glob_log(cl_out.before.files) :
        \/ f \in cl_in.unreadable
        \/ (f.mtime < Now - RetentionSeconds /\ f \in cl_in.failing)

C16_ExceptionsAreSwallowed ==
    /\ \A i \in DOMAIN cp_calls :
          /\ ~cp_calls[i].raised
          /\ \A k \in DOMAIN cp_calls[i].trace :
                ~cp_calls[i].trace[k].ok => (k = Len(cp_calls[i].trace) /\ ~cp_calls[i].ret)
    /\ cl_out.called => ~cl_out.raised
    /\ (entry = "cleanup_old_logs" /\ cl_out.called) =>
          (CleanupFaultHit <=> \E k \in DOMAIN cl_out.log : cl_out.log[k].level = "WARNING")

C16_Witness ==
    \E i \in DOMAIN cp_calls :
        /\ ~cp_calls[i].ret
        /\ Len(cp_calls[i].trace) >= 4
        /\ ~cp_calls[i].trace[Len(cp_calls[i].trace)].ok
        /\ \E f \in cp_calls[i].results :
              IsEntityLatest(f.name) /\ f.name \notin NamesIn(cp_calls[i].after.files)
                 /\ Fault("copy", f.name) \notin cp_calls[i].failing

\* C19: after a successful copy_to_docs the docs directory holds exactly
\* index.html and sentiment_report_latest.html with the content of the latest
\* report (if and only if the results directory has one) and a same-named
\* copy of every per-entity latest page; the count reported is the number of
\* those pages, and the results directory is unchanged.
ExpectedDocs(results) ==
    {f \in results : IsEntityLatest(f.name)}
    \cup UNION {{File(IndexHtml, f.content), File(LatestReportName, f.content)} :
                  f \in {g \in results : g.name = LatestReportName}}

C19_DocsHoldExactlyTheLatestFiles ==
    \A i \in DOMAIN cp_calls :
        cp_calls[i].ret =>
            /\ cp_calls[i].after.exists
            /\ cp_calls[i].after.files = ExpectedDocs(cp_calls[i].results)
            /\ cp_calls[i].reported
                 = {Cardinality({f \in cp_calls[i].results : IsEntityLatest(f.name)})}
            /\ results_dir = cp_calls[i].results

C19_Witness ==
    \E i \in DOMAIN cp_calls :
        /\ cp_calls[i].ret
        /\ cp_calls[i].results = ResultsCandidates
        /\ cp_calls[i].before.files = DocsCandidates
        /\ Cardinality(cp_calls[i].after.files) = 4
        /\ cp_calls[i].reported = {2}

\* Helpers for the claim about termination of main.
InvocationsOf(step) ==
    Cardinality({p \in (DOMAIN calls) \X (1..MaxRetriesBound) :
                   /\ calls[p[1]].step = step
                   /\ p[2] \in DOMAIN calls[p[1]].trace
                   /\ IsRun(calls[p[1]].trace[p[2]])})

AttemptCap ==
    [s \in {"collect", "generate", "stage", "commit", "push"} |->
        CASE s = "collect" -> 3
          [] s = "generate" -> 3
          [] s = "stage" -> 2
          [] s = "commit" -> 2
          [] s = "push" -> 1]

InvocationsWithinCaps ==
    /\ \A i \in DOMAIN calls : calls[i].step \in DOMAIN AttemptCap
    /\ \A s \in DOMAIN AttemptCap : InvocationsOf(s) <= AttemptCap[s]

MainTerminated == entry = "main" => (pc = "done" /\ main_ret \in {"True", "False"})

\* C21: every run of main ends, returning False (aborted) or True
\* (completed), and up to then the collection command has been invoked at
\* most 3 times, the generation command at most 3 times, stage and commit at
\* most 2 times each and push at most once.
C21_MainTerminatesWithinAttemptCaps == []InvocationsWithinCaps /\ <>MainTerminated

C21_Witness ==
    /\ MainDone
    /\ main_ret = "True"
    /\ \A s \in DOMAIN AttemptCap : InvocationsOf(s) = 1
    /\ StepFailed("commit")
    /\ StepFailed("push")

\* Helpers for the claim about push_to_github.
VersionControlOrder ==
    << << "git", "add", "results/*" >>,
       << "git", "add", "docs/*" >>,
       << "git", "commit", "-m", "Update sentiment analysis and dashboard" >>,
       << "git", "push" >> >>

PushExitedZero(e) == e.kind = "exit" /\ e.code = 0

PushExitedNonZero(e) == e.kind = "exit" /\ e.code # 0

\* C22: push_to_github runs stage results, stage docs, commit, push in that
\* order, each at most once; a command that exits non-zero is the last one
\* run and the call returns False; the call returns True only when all four
\* commands ran and exited zero.
C22_PushRunsInOrderAndStopsAtFirstFailure ==
    pg_out.called =>
        /\ Len(pg_out.trace) <= Len(VersionControlOrder)
        /\ \A k \in DOMAIN pg_out.trace : pg_out.trace[k].cmd = VersionControlOrder[k]
        /\ \A k \in DOMAIN pg_out.trace :
              PushExitedNonZero(pg_out.trace[k])
                 => (k = Len(pg_out.trace) /\ ~pg_out.ret /\ ~pg_out.raised)
        /\ pg_out.ret =>
              /\ Len(pg_out.trace) = Len(VersionControlOrder)
              /\ \A k \in DOMAIN pg_out.trace : PushExitedZero(pg_out.trace[k])

C22_Witness ==
    /\ pg_out.called
    /\ Len(pg_out.trace) = 3
    /\ PushExitedZero(pg_out.trace[1])
    /\ PushExitedZero(pg_out.trace[2])
    /\ PushExitedNonZero(pg_out.trace[3])
    /\ PushExitedZero(pg_in[4])
    /\ ~pg_out.ret

====
